---- MODULE Spec2Model ----
(***************************************************************************)
(* Model of dsgp4/newton_method.py: initial_guess, update_TLE and          *)
(* newton_method.  The SGP4 propagator with its automatic differentiation, *)
(* the Cartesian-to-elements converter and the TLE record constructor are  *)
(* external services: their answers are drawn from small sets, and the     *)
(* propagator is kept a pure function by remembering every answer it gave  *)
(* (memo).  Floating point numbers are integers plus one non-finite value. *)
(***************************************************************************)
EXTENDS Integers, Sequences, FiniteSets, TLC

\* ------------------------------------------------------------------ bounds
MaxIter == 3

\* ------------------------------------------------------- program constants
\* newton_method.py:134  tol=1e9
InitTol == 1000000000

\* the one non-finite float (NaN) of the model
NaN == -999983

\* ------------------------------------------------------- float arithmetic
IsFinite(a) == a # NaN

FAdd(a, b) == IF IsFinite(a) /\ IsFinite(b) THEN a + b ELSE NaN

FSub(a, b) == IF IsFinite(a) /\ IsFinite(b) THEN a - b ELSE NaN

FMul(a, b) == IF IsFinite(a) /\ IsFinite(b) THEN a * b ELSE NaN

FDiv(a, b) == IF IsFinite(a) /\ IsFinite(b) THEN a \div b ELSE NaN

FNeg(a) == IF IsFinite(a) THEN 0 - a ELSE NaN

\* every ordered comparison with NaN is false
FLt(a, b) == IsFinite(a) /\ IsFinite(b) /\ a < b

FGt(a, b) == IsFinite(a) /\ IsFinite(b) /\ a > b

FLe(a, b) == IsFinite(a) /\ IsFinite(b) /\ a <= b

RECURSIVE FSum(_, _)
FSum(v, n) == IF n = 0 THEN 0 ELSE FAdd(FSum(v, n - 1), v[n])

VecAdd(a, b) == [k \in 1..Len(a) |-> FAdd(a[k], b[k])]

VecSub(a, b) == [k \in 1..Len(a) |-> FSub(a[k], b[k])]

AllFinite(v) == \A k \in 1..Len(v) : IsFinite(v[k])

\* np.linalg.norm: Euclidean norm (all residuals of the model have an
\* integer norm)
Norm(v) ==
    IF ~AllFinite(v) THEN NaN
    ELSE LET s == FSum([k \in 1..Len(v) |-> v[k] * v[k]], Len(v))
         IN  CHOOSE n \in 0..s : n * n = s

Transpose(M) == [c \in 1..Len(M[1]) |-> [r \in 1..Len(M) |-> M[r][c]]]

MatMul(A, B) ==
    [r \in 1..Len(A) |->
        [c \in 1..Len(B[1]) |->
            FSum([k \in 1..Len(B) |-> FMul(A[r][k], B[k][c])], Len(B))]]

MatVec(A, v) ==
    [r \in 1..Len(A) |->
        FSum([k \in 1..Len(v) |-> FMul(A[r][k], v[k])], Len(v))]

\* the Jacobians of the model make DF^T DF diagonal with entries 0 or 1
RECURSIVE DiagProd(_, _)
DiagProd(A, n) == IF n = 0 THEN 1 ELSE DiagProd(A, n - 1) * A[n][n]

IsSingular(A) == DiagProd(A, Len(A)) = 0

\* np.linalg.inv of a non-singular diagonal matrix with entries +-1
Inv(A) == [r \in 1..Len(A) |-> [c \in 1..Len(A) |-> IF r = c THEN A[r][r] ELSE 0]]

\* ---------------------------------------------------------------- TLE record
\* kessler.tle.TLE built from a field dictionary: the record keeps the fields
TLE(d) == d

\* the two starting records: one in mid year, one 6 hours before the end of
\* the leap year 2020.  epoch_days is the 1-based fractional day of the year,
\* counted in minutes (day 1.0 is 1440).
TLE0(year, days) ==
    [b_star |-> 3,
     mean_motion_first_derivative |-> 7,
     mean_motion_second_derivative |-> 0,
     eccentricity |-> 1,
     argument_of_perigee |-> 2,
     inclination |-> 3,
     mean_anomaly |-> 4,
     mean_motion |-> 2,
     raan |-> 5,
     epoch_year |-> year,
     epoch_days |-> days,
     classification |-> "U",
     satellite_catalog_number |-> 25544,
     ephemeris_type |-> 0,
     international_designator |-> "98067A",
     revolution_number_at_epoch |-> 56353,
     element_number |-> 999]

TLE0Set == {TLE0(2021, 144000), TLE0(2020, 528120)}

TsinceSet == {0, 720}

TolSet == {1, 2, InitTol}

\* fields update_TLE copies from old_tle (newton_method.py:104-113)
FixedFields(t) ==
    [mean_motion_first_derivative |-> t.mean_motion_first_derivative,
     mean_motion_second_derivative |-> t.mean_motion_second_derivative,
     epoch_days |-> t.epoch_days,
     epoch_year |-> t.epoch_year,
     classification |-> t.classification,
     satellite_catalog_number |-> t.satellite_catalog_number,
     ephemeris_type |-> t.ephemeris_type,
     international_designator |-> t.international_designator,
     revolution_number_at_epoch |-> t.revolution_number_at_epoch,
     element_number |-> t.element_number]

\* numeric fields a record is built from
NumericFields(t) ==
    <<t.b_star, t.mean_motion, t.raan, t.eccentricity,
      t.argument_of_perigee, t.inclination, t.mean_anomaly>>

\* the attributes _bstar, _ndot, _nddot, _ecco, _argpo, _inclo, _mo,
\* _no_kozai, _nodeo read at newton_method.py:64-72, plus the padding slot.
\* _no_kozai is mean_motion/(pi/43200)/xpdotp (line 47) = mean_motion*60;
\* _ndot and _nddot are kept in the units of the record fields.
Extract(t) ==
    <<t.b_star,
      t.mean_motion_first_derivative,
      t.mean_motion_second_derivative,
      t.eccentricity,
      t.argument_of_perigee,
      t.inclination,
      t.mean_anomaly,
      FDiv(FMul(t.mean_motion, 2 * 43200), 1440),
      t.raan,
      0>>

\* ------------------------------------------------------------ date utilities
IsLeap(y) == (y % 4 = 0 /\ y % 100 # 0) \/ y % 400 = 0

DaysInYear(y) == IF IsLeap(y) THEN 366 ELSE 365

\* from_year_day_to_date(year, days) + timedelta(days=tsince/1440), read back
\* as (year, fractional day): newton_method.py:44-46
NewEpoch(year, days, ts) ==
    LET d == days + ts
    IN  IF d >= (DaysInYear(year) + 1) * 1440
        THEN [year |-> year + 1, days |-> d - DaysInYear(year) * 1440]
        ELSE [year |-> year, days |-> d]

\* --------------------------------------------------------------- update_TLE
\* newton_method.py:92-93: no_kozai = y0[7]*xpdotp, mean_motion =
\* no_kozai*pi/43200 with xpdotp = 1440/(2 pi): y0[7]*1440/(2*43200)
MeanMotionOf(y7) == FDiv(FMul(y7, 1440), 2 * 43200)

\* update_TLE with the two epoch fields of old_tle exchanged
update_TLE_elements_epoch_swapped(old_tle, y) ==
    [mean_motion |-> FDiv(FMul(y[8], 1440), 2 * 43200),
     b_star |-> y[1],
     raan |-> y[9],
     eccentricity |-> y[4],
     argument_of_perigee |-> y[5],
     inclination |-> y[6],
     mean_anomaly |-> y[7],
     mean_motion_first_derivative |-> old_tle.mean_motion_first_derivative,
     mean_motion_second_derivative |-> old_tle.mean_motion_second_derivative,
     epoch_days |-> old_tle.epoch_year,
     epoch_year |-> old_tle.epoch_days,
     classification |-> old_tle.classification,
     satellite_catalog_number |-> old_tle.satellite_catalog_number,
     ephemeris_type |-> old_tle.ephemeris_type,
     international_designator |-> old_tle.international_designator,
     revolution_number_at_epoch |-> old_tle.revolution_number_at_epoch,
     element_number |-> old_tle.element_number]

\* the dictionary of newton_method.py:89-113 (y0 is 0-based in the source)
update_TLE_elements(old_tle, y) ==
    [mean_motion |-> MeanMotionOf(y[8]),
     b_star |-> y[1],
     raan |-> y[9],
     eccentricity |-> y[4],
     argument_of_perigee |-> y[5],
     inclination |-> y[6],
     mean_anomaly |-> y[7],
     mean_motion_first_derivative |-> old_tle.mean_motion_first_derivative,
     mean_motion_second_derivative |-> old_tle.mean_motion_second_derivative,
     epoch_days |-> old_tle.epoch_days,
     epoch_year |-> old_tle.epoch_year,
     classification |-> old_tle.classification,
     satellite_catalog_number |-> old_tle.satellite_catalog_number,
     ephemeris_type |-> old_tle.ephemeris_type,
     international_designator |-> old_tle.international_designator,
     revolution_number_at_epoch |-> old_tle.revolution_number_at_epoch,
     element_number |-> old_tle.element_number]

update_TLE(old_tle, y) == TLE(update_TLE_elements(old_tle, y))

\* the constructor is handed a non-finite number
NonFiniteArgs(d) == ~AllFinite(NumericFields(d))

\* inputs on which the external constructor may raise or may build a record
CtorMayFail(d) == NonFiniteArgs(d) \/ d.eccentricity < 0

\* ------------------------------------------------------- external services
\* the state sgp4(tle_0, tsince) returns, rows position and velocity flattened
\* to (x, y, z, vx, vy, vz)
TargetState == <<7000, 0, 0, 0, 7, 0>>

NaNState == <<NaN, NaN, NaN, NaN, NaN, NaN>>

\* states the propagator may answer with: on target, 1 km off in x, 60 km/s
\* off in vy, or not a number
StateSet ==
    {TargetState,
     VecAdd(TargetState, <<1, 0, 0, 0, 0, 0>>),
     VecAdd(TargetState, <<0, 0, 0, 0, 60, 0>>),
     NaNState}

\* gradients of the six outputs with respect to the ten parameters (6 x 10):
\* output k depends on free parameter k alone; the same with a vanishing
\* first row (singular); the same with a drag (b_star) sensitivity
GradId == [k \in 1..6 |-> [j \in 1..10 |-> IF j = k + 3 THEN 1 ELSE 0]]

GradSing == [k \in 1..6 |-> [j \in 1..10 |-> IF j = k + 3 /\ k # 1 THEN 1 ELSE 0]]

GradDrag == [k \in 1..6 |-> [j \in 1..10 |-> IF j = k + 3 \/ j = 1 THEN 1 ELSE 0]]

GradSet == {GradId, GradSing, GradDrag}

\* free elements from_cartesian_to_tle_elements may answer with
ElementsSet ==
    {[eccentricity |-> 1, argument_of_perigee |-> 2, inclination |-> 3,
      mean_anomaly |-> 4, mean_motion |-> 2, raan |-> 5],
     [eccentricity |-> 1, argument_of_perigee |-> 2, inclination |-> 3,
      mean_anomaly |-> 6, mean_motion |-> 2, raan |-> 5]}

\* what the propagator is asked: the parameter vector, the epoch of the
\* record and the minutes since that epoch
PropKey(y, t, ts) == [y |-> y, year |-> t.epoch_year, days |-> t.epoch_days, ts |-> ts]

VARIABLES
    tle_0, tsince, new_tol, max_iter,   \* arguments of newton_method
    i, tol, y0, state_target, next_tle, \* locals of newton_method
    F, grads, dY,                       \* locals of one iteration
    pc, err,                            \* position; the exception raised
    ret_tle, ret_y, via,                \* the returned pair; the return taken
    memo,                               \* answers the propagator has given
    seed_tle, prev_tle,                 \* seed record; record before the last update
    eval_tle, eval_y,                   \* the pair of the last evaluation
    bodyRuns, updates, inversions,      \* counters of loop bodies, update_TLE calls, inv calls
    withinTol, singularSeen,            \* a residual <= new_tol was seen; inv met a singular matrix
    nonFiniteCtor,                      \* the constructor was handed a non-finite number
    probed, probe_state                 \* the caller's propagate(T', tsince)

vars == <<tle_0, tsince, new_tol, max_iter, i, tol, y0, state_target, next_tle,
          F, grads, dY, pc, err, ret_tle, ret_y, via, memo, seed_tle, prev_tle,
          eval_tle, eval_y, bodyRuns, updates, inversions, withinTol,
          singularSeen, nonFiniteCtor, probed, probe_state>>

inputs == <<tle_0, tsince, new_tol, max_iter>>

result == <<ret_tle, ret_y, via>>

ZeroVec(n) == [k \in 1..n |-> 0]

\* the answers of a pure propagator to key k: the remembered one, or any
Answers(k) ==
    IF \E m \in memo : m.key = k
    THEN {[state |-> m.state, grad |-> m.grad] : m \in {x \in memo : x.key = k}}
    ELSE [state : StateSet, grad : GradSet]

Remember(k, a) == memo \cup {[key |-> k, state |-> a.state, grad |-> a.grad]}

\* an exception caught inside the solver, which then returns its current pair
RaiseCaught(e) == [pc |-> "returned", err |-> e]

\* no try/except in newton_method: an exception ends the call
Raise(e) == [pc |-> "raised", err |-> e]

Init ==
    /\ tle_0 \in TLE0Set
    /\ tsince \in TsinceSet
    /\ new_tol \in TolSet
    /\ max_iter \in 0..MaxIter
    /\ i = 0
    /\ tol = InitTol
    /\ y0 = ZeroVec(10)
    /\ state_target = ZeroVec(6)
    /\ next_tle = tle_0
    /\ F = ZeroVec(6)
    /\ grads = GradId
    /\ dY = ZeroVec(10)
    /\ pc = "init"
    /\ err = ""
    /\ ret_tle = tle_0
    /\ ret_y = ZeroVec(10)
    /\ via = ""
    /\ memo = {}
    /\ seed_tle = tle_0
    /\ prev_tle = tle_0
    /\ eval_tle = tle_0
    /\ eval_y = ZeroVec(10)
    /\ bodyRuns = 0
    /\ updates = 0
    /\ inversions = 0
    /\ withinTol = FALSE
    /\ singularSeen = FALSE
    /\ nonFiniteCtor = FALSE
    /\ probed = FALSE
    /\ probe_state = ZeroVec(6)

\* ------------------------------------------------------------ initial_guess
\* the dictionary of newton_method.py:40-61: converted elements, the new
\* epoch, and the remaining fields of tle_0
initial_guess_elements(t0, ts, e) ==
    LET ep == NewEpoch(t0.epoch_year, t0.epoch_days, ts)
    IN  [eccentricity |-> e.eccentricity,
         argument_of_perigee |-> e.argument_of_perigee,
         inclination |-> e.inclination,
         mean_anomaly |-> e.mean_anomaly,
         mean_motion |-> e.mean_motion,
         raan |-> e.raan,
         epoch_year |-> ep.year,
         epoch_days |-> ep.days,
         mean_motion_first_derivative |-> t0.mean_motion_first_derivative,
         mean_motion_second_derivative |-> t0.mean_motion_second_derivative,
         classification |-> t0.classification,
         international_designator |-> t0.international_designator,
         satellite_catalog_number |-> t0.satellite_catalog_number,
         ephemeris_type |-> t0.ephemeris_type,
         element_number |-> t0.element_number,
         b_star |-> t0.b_star,
         revolution_number_at_epoch |-> t0.revolution_number_at_epoch]

\* newton_method.py:136 and 37-74
initial_guess ==
    /\ pc = "init"
    /\ \E g \in GradSet, e \in ElementsSet :
         LET new_tle == TLE(initial_guess_elements(tle_0, tsince, e))
         IN  /\ state_target' = TargetState
             /\ memo' = Remember(PropKey(Extract(tle_0), tle_0, tsince),
                                 [state |-> TargetState, grad |-> g])
             /\ next_tle' = new_tle
             /\ seed_tle' = new_tle
             /\ prev_tle' = new_tle
             /\ y0' = Extract(new_tle)
    /\ pc' = "loop"
    /\ UNCHANGED <<inputs, i, tol, F, grads, dY, err, result, eval_tle, eval_y,
                   bodyRuns, updates, inversions, withinTol, singularSeen,
                   nonFiniteCtor, probed, probe_state>>

\* sgp4 or from_cartesian_to_tle_elements raises inside initial_guess
initial_guess_raises ==
    /\ pc = "init"
    /\ \E e \in {"PropagationError", "ConversionError"} :
         /\ pc' = Raise(e).pc
         /\ err' = Raise(e).err
    /\ UNCHANGED <<inputs, i, tol, y0, state_target, next_tle, F, grads, dY,
                   result, memo, seed_tle, prev_tle, eval_tle, eval_y, bodyRuns,
                   updates, inversions, withinTol, singularSeen, nonFiniteCtor,
                   probed, probe_state>>

\* ------------------------------------------------------------ newton_method
\* newton_method.py:139  while i<max_iter and tol>new_tol
LoopGuard(it, mx, t, nt) == it < mx /\ FGt(t, nt)

LoopEnter ==
    /\ pc = "loop"
    /\ LoopGuard(i, max_iter, tol, new_tol)
    /\ pc' = "eval"
    /\ UNCHANGED <<inputs, i, tol, y0, state_target, next_tle, F, grads, dY, err,
                   result, memo, seed_tle, prev_tle, eval_tle, eval_y, bodyRuns,
                   updates, inversions, withinTol, singularSeen, nonFiniteCtor,
                   probed, probe_state>>

\* newton_method.py:185  return next_tle, y0
LoopExit ==
    /\ pc = "loop"
    /\ ~LoopGuard(i, max_iter, tol, new_tol)
    /\ pc' = "returned"
    /\ ret_tle' = next_tle
    /\ ret_y' = y0
    /\ via' = "exhausted"
    /\ UNCHANGED <<inputs, i, tol, y0, state_target, next_tle, F, grads, dY, err,
                   memo, seed_tle, prev_tle, eval_tle, eval_y, bodyRuns, updates,
                   inversions, withinTol, singularSeen, nonFiniteCtor, probed,
                   probe_state>>

\* newton_method.py:166  F = propagated - target
Residual(state, target) == VecSub(state, target)

\* newton_method.py:142-167: the six propagations at (y0, next_tle, 0.) with
\* their gradients, the residual and its norm
Evaluate ==
    /\ pc = "eval"
    /\ \E a \in Answers(PropKey(y0, next_tle, 0)) :
         /\ memo' = Remember(PropKey(y0, next_tle, 0), a)
         /\ grads' = a.grad
         /\ F' = Residual(a.state, state_target)
         /\ tol' = Norm(Residual(a.state, state_target))
         /\ withinTol' = (withinTol \/ FLe(Norm(Residual(a.state, state_target)), new_tol))
    /\ eval_tle' = next_tle
    /\ eval_y' = y0
    /\ bodyRuns' = bodyRuns + 1
    /\ pc' = "solve"
    /\ UNCHANGED <<inputs, i, y0, state_target, next_tle, dY, err, result,
                   seed_tle, prev_tle, updates, inversions, singularSeen,
                   nonFiniteCtor, probed, probe_state>>

\* util.propagate raises at a point it was not asked before
EvaluateRaises ==
    /\ pc = "eval"
    /\ ~(\E m \in memo : m.key = PropKey(y0, next_tle, 0))
    /\ bodyRuns' = bodyRuns + 1
    /\ pc' = Raise("PropagationError").pc
    /\ err' = Raise("PropagationError").err
    /\ UNCHANGED <<inputs, i, tol, y0, state_target, next_tle, F, grads, dY,
                   result, memo, seed_tle, prev_tle, eval_tle, eval_y, updates,
                   inversions, withinTol, singularSeen, nonFiniteCtor, probed,
                   probe_state>>

\* newton_method.py:169-172  DF=DF[:,3:]; DF=DF[:,:-1]
ReducedJacobian(g) ==
    [r \in 1..Len(g) |->
        LET a == SubSeq(g[r], 4, Len(g[r]))
        IN  SubSeq(a, 1, Len(a) - 1)]

\* newton_method.py:173  dY=-inv(DF.T DF) DF.T F
NormalEquations(DF, Fv) ==
    LET DFT == Transpose(DF)
        v == MatVec(MatMul(Inv(MatMul(DFT, DF)), DFT), Fv)
    IN  [k \in 1..Len(v) |-> FNeg(v[k])]

\* the correction padded one slot too far to the left
PadShifted(d) == <<0, 0>> \o d \o <<0, 0>>

\* newton_method.py:174  [0.,0.,0.]+list(dY)+[0.]
Pad(d) == <<0, 0, 0>> \o d \o <<0>>

\* newton_method.py:169-174 with an invertible DF^T DF
SolveNormalEquations ==
    /\ pc = "solve"
    /\ ~IsSingular(MatMul(Transpose(ReducedJacobian(grads)), ReducedJacobian(grads)))
    /\ dY' = Pad(NormalEquations(ReducedJacobian(grads), F))
    /\ inversions' = inversions + 1
    /\ pc' = "check"
    /\ UNCHANGED <<inputs, i, tol, y0, state_target, next_tle, F, grads, err,
                   result, memo, seed_tle, prev_tle, eval_tle, eval_y, bodyRuns,
                   updates, withinTol, singularSeen, nonFiniteCtor, probed,
                   probe_state>>

\* newton_method.py:173: np.linalg.inv raises LinAlgError on a singular matrix
SolveSingular ==
    /\ pc = "solve"
    /\ IsSingular(MatMul(Transpose(ReducedJacobian(grads)), ReducedJacobian(grads)))
    /\ inversions' = inversions + 1
    /\ singularSeen' = TRUE
    /\ pc' = Raise("LinAlgError").pc
    /\ err' = Raise("LinAlgError").err
    /\ UNCHANGED <<inputs, i, tol, y0, state_target, next_tle, F, grads, dY,
                   result, memo, seed_tle, prev_tle, eval_tle, eval_y, bodyRuns,
                   updates, withinTol, nonFiniteCtor, probed, probe_state>>

\* newton_method.py:175  if tol<new_tol
Converged(t, nt) == FLt(t, nt)

\* the converged return with the pending correction applied to y0
ConvergedPairPlusdY(tle, y, d) == [tle |-> tle, y |-> VecAdd(y, d)]

\* newton_method.py:178  return next_tle, y0#+dY
ConvergedPair(tle, y, d) == [tle |-> tle, y |-> y]

ReturnConverged ==
    /\ pc = "check"
    /\ Converged(tol, new_tol)
    /\ pc' = "returned"
    /\ ret_tle' = ConvergedPair(next_tle, y0, dY).tle
    /\ ret_y' = ConvergedPair(next_tle, y0, dY).y
    /\ via' = "converged"
    /\ UNCHANGED <<inputs, i, tol, y0, state_target, next_tle, F, grads, dY, err,
                   memo, seed_tle, prev_tle, eval_tle, eval_y, bodyRuns, updates,
                   inversions, withinTol, singularSeen, nonFiniteCtor, probed,
                   probe_state>>

\* the record rebuilt from the vector before the correction
NewtonUpdateStale(tle, y, d) ==
    [y |-> VecAdd(y, d), elements |-> update_TLE_elements(tle, y)]

\* newton_method.py:182-183: the new vector and the dictionary update_TLE
\* hands to the constructor
NewtonUpdate(tle, y, d) ==
    [y |-> VecAdd(y, d), elements |-> update_TLE_elements(tle, VecAdd(y, d))]

\* newton_method.py:179-184, the constructor building the record
NewtonStep ==
    /\ pc = "check"
    /\ ~Converged(tol, new_tol)
    /\ y0' = NewtonUpdate(next_tle, y0, dY).y
    /\ next_tle' = TLE(NewtonUpdate(next_tle, y0, dY).elements)
    /\ prev_tle' = next_tle
    /\ nonFiniteCtor' = (nonFiniteCtor \/ NonFiniteArgs(NewtonUpdate(next_tle, y0, dY).elements))
    /\ updates' = updates + 1
    /\ i' = i + 1
    /\ pc' = "loop"
    /\ UNCHANGED <<inputs, tol, state_target, F, grads, dY, err, result, memo,
                   seed_tle, eval_tle, eval_y, bodyRuns, inversions, withinTol,
                   singularSeen, probed, probe_state>>

\* newton_method.py:179-183, the constructor raising inside update_TLE
NewtonStepRaises ==
    /\ pc = "check"
    /\ ~Converged(tol, new_tol)
    /\ CtorMayFail(NewtonUpdate(next_tle, y0, dY).elements)
    /\ y0' = NewtonUpdate(next_tle, y0, dY).y
    /\ nonFiniteCtor' = (nonFiniteCtor \/ NonFiniteArgs(NewtonUpdate(next_tle, y0, dY).elements))
    /\ updates' = updates + 1
    /\ pc' = Raise("InvalidTLEError").pc
    /\ err' = Raise("InvalidTLEError").err
    /\ UNCHANGED <<inputs, i, tol, state_target, next_tle, F, grads, dY, result,
                   memo, seed_tle, prev_tle, eval_tle, eval_y, bodyRuns,
                   inversions, withinTol, singularSeen, probed, probe_state>>

\* the caller of a converged solve propagates the returned record to tsince
Probe ==
    /\ pc = "returned"
    /\ via = "converged"
    /\ ~probed
    /\ \E a \in Answers(PropKey(Extract(ret_tle), ret_tle, tsince)) :
         probe_state' = a.state
    /\ probed' = TRUE
    /\ UNCHANGED <<inputs, i, tol, y0, state_target, next_tle, F, grads, dY, pc,
                   err, result, memo, seed_tle, prev_tle, eval_tle, eval_y,
                   bodyRuns, updates, inversions, withinTol, singularSeen,
                   nonFiniteCtor>>

Next ==
    \/ initial_guess
    \/ initial_guess_raises
    \/ LoopEnter
    \/ LoopExit
    \/ Evaluate
    \/ EvaluateRaises
    \/ SolveNormalEquations
    \/ SolveSingular
    \/ ReturnConverged
    \/ NewtonStep
    \/ NewtonStepRaises
    \/ Probe

Spec == Init /\ [][Next]_vars

TypeOK ==
    /\ pc \in {"init", "loop", "eval", "solve", "check", "returned", "raised"}
    /\ i \in 0..MaxIter
    /\ Len(y0) = 10 /\ Len(dY) = 10 /\ Len(F) = 6

\* ------------------------------------------------------------------ claims
Started == memo # {}

\* C1: whenever the residual norm evaluated in an iteration is at most tol
\* (equality included), solve returns through the converged return exactly
\* the pair (tle_guess, y0) at which that residual was evaluated.
C1_WithinTolReturnsEvaluatedPair ==
    (pc = "returned" /\ bodyRuns > 0 /\ FLe(tol, new_tol))
        => (via = "converged" /\ ret_tle = eval_tle /\ ret_y = eval_y)

\* C2: the loop body runs at most max_iter times, and when no evaluated
\* residual norm fell to tol (all of them numbers) solve returns after
\* exactly max_iter bodies and max_iter update_TLE calls.
C2_ExhaustionRunsMaxIter ==
    /\ bodyRuns <= max_iter
    /\ (pc = "returned" /\ ~withinTol /\ IsFinite(tol))
        => (bodyRuns = max_iter /\ updates = max_iter /\ via = "exhausted"
            /\ ret_tle = next_tle /\ ret_y = y0)

\* C3 as stated: after a converged solve, propagating the returned record to
\* tsince gives a state within tol of the target state.
C3_RoundTripAtTsince ==
    probed => FLe(Norm(VecSub(probe_state, state_target)), new_tol)

\* C3 amended: after a converged solve the propagator has been evaluated at
\* the returned pair, 0 minutes after the returned record's own epoch, and
\* that state is within tol of the target state.
C3_RoundTripAtOwnEpoch ==
    (pc = "returned" /\ via = "converged")
        => \E m \in memo :
              /\ m.key = PropKey(ret_y, ret_tle, 0)
              /\ FLt(Norm(VecSub(m.state, state_target)), new_tol)

C3_Witness ==
    /\ pc = "returned" /\ via = "converged" /\ probed
    /\ tsince # 0 /\ updates >= 1
    /\ ~FLe(Norm(VecSub(probe_state, state_target)), new_tol)

\* C4: the padded correction is 0 at slots 0, 1, 2 and 9, the first three
\* slots of y0 keep their initial-guess values and slot 9 of y0 stays 0.
C4_ZeroPadding ==
    /\ dY[1] = 0 /\ dY[2] = 0 /\ dY[3] = 0 /\ dY[10] = 0
    /\ Started =>
          /\ y0[1] = Extract(seed_tle)[1]
          /\ y0[2] = Extract(seed_tle)[2]
          /\ y0[3] = Extract(seed_tle)[3]
          /\ y0[10] = 0

C4_Witness ==
    /\ pc = "returned" /\ updates >= 2
    /\ dY # ZeroVec(10)
    /\ y0[4] # Extract(seed_tle)[4]
    /\ y0[8] # Extract(seed_tle)[8]

\* C5: every record the solver holds or returns has the fixed fields of the
\* seed record (tle_0's metadata with the epoch moved by tsince), the fixed
\* fields of the record it was updated from, and tle_0's drag term.
C5_FixedFieldsKept ==
    Started =>
        /\ FixedFields(next_tle) =
              [FixedFields(tle_0) EXCEPT
                 !.epoch_year = NewEpoch(tle_0.epoch_year, tle_0.epoch_days, tsince).year,
                 !.epoch_days = NewEpoch(tle_0.epoch_year, tle_0.epoch_days, tsince).days]
        /\ FixedFields(next_tle) = FixedFields(prev_tle)
        /\ next_tle.b_star = tle_0.b_star
        /\ pc = "returned" =>
              /\ FixedFields(ret_tle) = FixedFields(seed_tle)
              /\ ret_tle.b_star = tle_0.b_star

C5_Witness ==
    /\ pc = "returned" /\ updates >= 2 /\ tsince # 0
    /\ ret_tle # seed_tle
    /\ ret_tle.epoch_year # tle_0.epoch_year

\* C6: the record constructor is never handed a non-finite number:
\* update_TLE raises InvalidElementError before it calls the constructor.
C6_NoNonFiniteConstruction ==
    /\ ~nonFiniteCtor
    /\ (pc = "raised" /\ ~AllFinite(y0)) => err = "InvalidElementError"

C8_ConvergedSkipsInversion ==
    (bodyRuns > 0 /\ FLe(tol, new_tol) /\ pc \in {"check", "returned", "raised"})
        => (inversions < bodyRuns /\ err # "LinAlgError")

\* C9: with max_iter >= 1 solve evaluates the residual at the initial guess
\* at least once before it returns, whatever tol is.
C9_EvaluatesBeforeReturn ==
    (pc = "returned" /\ max_iter >= 1) => bodyRuns >= 1

\* C10: at the loop head and at every return the record is the seed record
\* y0 was extracted from, or update_TLE of the previous record and the
\* current y0; the returned pair is the current pair.
C10_PairConsistent ==
    pc \in {"loop", "returned"} =>
        /\ \/ updates = 0 /\ next_tle = seed_tle /\ y0 = Extract(seed_tle)
           \/ updates > 0 /\ next_tle = update_TLE(prev_tle, y0)
        /\ pc = "returned" => (ret_tle = next_tle /\ ret_y = y0)

C10_Witness ==
    /\ pc = "returned" /\ via = "exhausted" /\ updates >= 1
    /\ y0 # Extract(seed_tle)
    /\ next_tle # prev_tle

====
